---------------------------- MODULE Spec2Model ----------------------------
(***************************************************************************)
(* Model of the AI proxy server (ai-server.js, src/unnamed/part_000).      *)
(*                                                                         *)
(* The server is a single Node.js process.  Every route handler runs       *)
(* atomically from one `await` to the next, so each action below is one    *)
(* such segment: the arrival of a request up to its first upstream call    *)
(* (or its answer), and the resumption of a handler when its upstream      *)
(* call settles up to the next call (or its answer).  Several requests     *)
(* may be in flight at once; they share the module variable currentModel.  *)
(*                                                                         *)
(* Request bodies are JSON objects (express.json) whose message and        *)
(* asteroidName properties are absent or strings.  Strings are sequences   *)
(* of characters so that toLowerCase, trim and includes are computed, not  *)
(* assumed.                                                                *)
(***************************************************************************)
EXTENDS Integers, Sequences, FiniteSets, TLC

(***************************************************************************)
(* Bounds of the model.                                                    *)
(***************************************************************************)
\* number of requests that may be in flight at the same time
NumClients == 2
\* number of fragments a generated chat message is built from (SpecPick)
MaxFrags == 2

(***************************************************************************)
(* Characters and the string functions the handlers use.                   *)
(***************************************************************************)
UpperCase == <<"A","B","C","D","E","F","G","H","I","J","K","L","M",
               "N","O","P","Q","R","S","T","U","V","W","X","Y","Z">>

LowerCase == <<"a","b","c","d","e","f","g","h","i","j","k","l","m",
               "n","o","p","q","r","s","t","u","v","w","x","y","z">>

WhiteSpace == {" ", "\t", "\n"}

toLowerCaseChar(c) ==
    IF \E i \in 1..Len(UpperCase) : UpperCase[i] = c
    THEN LowerCase[CHOOSE i \in 1..Len(UpperCase) : UpperCase[i] = c]
    ELSE c

\* String.prototype.toLowerCase
toLowerCase(s) == [i \in 1..Len(s) |-> toLowerCaseChar(s[i])]

\* String.prototype.includes
includes(s, sub) ==
    \E i \in 1..(Len(s) - Len(sub) + 1) : SubSeq(s, i, i + Len(sub) - 1) = sub

RECURSIVE trimStart(_)
trimStart(s) ==
    IF s # <<>> /\ Head(s) \in WhiteSpace THEN trimStart(Tail(s)) ELSE s

RECURSIVE trimEnd(_)
trimEnd(s) ==
    IF s # <<>> /\ s[Len(s)] \in WhiteSpace
    THEN trimEnd(SubSeq(s, 1, Len(s) - 1))
    ELSE s

\* String.prototype.trim
trim(s) == trimEnd(trimStart(s))

(***************************************************************************)
(* Values of a body property: absent or a string.                          *)
(***************************************************************************)
Absent == [kind |-> "absent", chars |-> <<>>]

Str(s) == [kind |-> "string", chars |-> s]

\* Variant of Truthy: the test is for a present property (undefined only),
\* so that the empty string passes validation.
Truthy_present(v) == v.kind # "absent"

\* JavaScript truthiness, as tested by `!message` and `!asteroidName`
Truthy(v) == v.kind = "string" /\ v.chars # <<>>

(***************************************************************************)
(* Model identifiers.                                                      *)
(***************************************************************************)
DefaultModel == "gemini-2.5-flash"

\* Variant of chatFallbackModels: the list names a model outside the known set.
chatFallbackModels_stale == <<"gemini-1.5-flash", "gemini-pro-latest", "gemini-exp-1206">>

\* Variant of chatFallbackModels: the array with its last entry first.
chatFallbackModels_expFirst == <<"gemini-exp-1206", "gemini-2.0-flash", "gemini-pro-latest">>

\* fallbackModels of the /chat catch block
chatFallbackModels == <<"gemini-2.0-flash", "gemini-pro-latest", "gemini-exp-1206">>

\* Variant of testFallbackModels: the array with its first two entries
\* exchanged.
testFallbackModels_swapped ==
    <<"gemini-pro-latest", "gemini-2.0-flash", "gemini-exp-1206",
      "gemini-2.0-flash-001">>

\* fallbackModels of the /test-gemini catch block
testFallbackModels ==
    <<"gemini-2.0-flash", "gemini-pro-latest", "gemini-exp-1206", "gemini-2.0-flash-001">>

(***************************************************************************)
(* Outcomes of one upstream call (axios):                                  *)
(*   ok       2xx with candidate text                                      *)
(*   empty    2xx without candidate text                                   *)
(*   e404     error status 404 (model not found)                           *)
(*   e429     error status 429 (rate limit)                                *)
(*   e500     any other error status                                       *)
(*   timeout  the call's timeout expired   (error.response undefined)      *)
(*   network  upstream unreachable         (error.response undefined)      *)
(***************************************************************************)
Outcomes == {"ok", "empty", "e404", "e429", "e500", "timeout", "network"}

\* axios resolves the promise (2xx); otherwise it rejects
Resolved(o) == o \in {"ok", "empty"}

\* error.response?.status of the rejection, 0 when there is no response
ErrorStatus(o) ==
    CASE o = "e404" -> 404
      [] o = "e429" -> 429
      [] o = "e500" -> 500
      [] OTHER -> 0

\* response.data?.candidates?.[0]?.content?.parts?.[0]?.text is truthy
HasText(o) == o = "ok"

(***************************************************************************)
(* What becomes of an exception that escapes an async handler.  The        *)
(* handler's promise rejects; depending on the framework version the       *)
(* request is never answered (the rejection is not observed) or the        *)
(* default error handler answers 500.                                      *)
(***************************************************************************)
UnhandledOutcomes == {"unanswered", "framework500"}

(***************************************************************************)
(* Keywords of the chat fallback buckets and keys of the asteroid          *)
(* database, as character sequences.                                       *)
(***************************************************************************)
kwAsteroid == <<"a","s","t","e","r","o","i","d">>

kwNeo == <<"n","e","o">>

kwMars == <<"m","a","r","s">>

kwPlanet == <<"p","l","a","n","e","t">>

kwMoon == <<"m","o","o","n">>

kwLunar == <<"l","u","n","a","r">>

kwStar == <<"s","t","a","r">>

kwGalaxy == <<"g","a","l","a","x","y">>

kwRisk == <<"r","i","s","k">>

kwDanger == <<"d","a","n","g","e","r">>

keyBennu == <<"b","e","n","n","u">>

keyApophis == <<"a","p","o","p","h","i","s">>

keyCeres == <<"c","e","r","e","s">>

keyEros == <<"e","r","o","s">>

keyItokawa == <<"i","t","o","k","a","w","a">>

(***************************************************************************)
(* Response texts.  A text is a named canned text, possibly with a string  *)
(* of the request embedded in it (template literals).                      *)
(***************************************************************************)
Text(id) == [text |-> id, embed |-> <<>>]

Template(id, s) == [text |-> id, embed |-> s]

\* a property that is missing from the JSON payload, or undefined
NoText == Text("undefined")

\* the text generated by the upstream model
AiText == Text("ai-response")

RateLimitText == Text("cosmic-bandwidth-saturated")

\* Variant of pickFallback: the mars/planet bucket is tested before the
\* asteroid/neo bucket.
pickFallback_marsFirst(message) ==
    LET userMessage == toLowerCase(message)
    IN  IF includes(userMessage, kwMars) \/ includes(userMessage, kwPlanet)
          THEN Text("mars-connection-static")
        ELSE IF includes(userMessage, kwAsteroid) \/ includes(userMessage, kwNeo)
          THEN Text("asteroid-info-from-local-database")
        ELSE IF includes(userMessage, kwMoon) \/ includes(userMessage, kwLunar)
          THEN Text("lunar-signal-weak")
        ELSE IF includes(userMessage, kwStar) \/ includes(userMessage, kwGalaxy)
          THEN Text("stellar-interference")
        ELSE IF includes(userMessage, kwRisk) \/ includes(userMessage, kwDanger)
          THEN Text("risk-assessment-nominal")
        ELSE Text("interstellar-static")

\* The "smart context-aware fallback" of the /chat catch block, applied to
\* the characters of req.body.message ('' when the message is falsy).
pickFallback(message) ==
    LET userMessage == toLowerCase(message)
    IN  IF includes(userMessage, kwAsteroid) \/ includes(userMessage, kwNeo)
          THEN Text("asteroid-info-from-local-database")
        ELSE IF includes(userMessage, kwMars) \/ includes(userMessage, kwPlanet)
          THEN Text("mars-connection-static")
        ELSE IF includes(userMessage, kwMoon) \/ includes(userMessage, kwLunar)
          THEN Text("lunar-signal-weak")
        ELSE IF includes(userMessage, kwStar) \/ includes(userMessage, kwGalaxy)
          THEN Text("stellar-interference")
        ELSE IF includes(userMessage, kwRisk) \/ includes(userMessage, kwDanger)
          THEN Text("risk-assessment-nominal")
        ELSE Text("interstellar-static")

\* asteroidDatabase of the /asteroid-info catch block: key -> fact sheet
asteroidDatabase ==
    [k \in {keyBennu, keyApophis, keyCeres, keyEros, keyItokawa} |->
        CASE k = keyBennu   -> Text("101955-bennu")
          [] k = keyApophis -> Text("99942-apophis")
          [] k = keyCeres   -> Text("1-ceres")
          [] k = keyEros    -> Text("433-eros")
          [] k = keyItokawa -> Text("25143-itokawa")]

\* Lower-case property names every object literal inherits from Object.prototype
keyConstructor == <<"c","o","n","s","t","r","u","c","t","o","r">>

keyProto == <<"_","_","p","r","o","t","o","_","_">>

\* asteroidDatabase[lowerName] || `Asteroid **${asteroidName}** is being analyzed ...`
\* The lookup is a property access on an object literal, so the inherited
\* properties are found as well: "constructor" is a function (dropped by
\* JSON serialisation), "__proto__" is Object.prototype (serialised as {}).
asteroidFallback(asteroidName) ==
    LET lowerName == trim(toLowerCase(asteroidName))
    IN  IF lowerName \in DOMAIN asteroidDatabase
          THEN asteroidDatabase[lowerName]
        ELSE IF lowerName = keyConstructor THEN NoText
        ELSE IF lowerName = keyProto THEN Text("empty-object")
        ELSE Template("being-analyzed", asteroidName)

(***************************************************************************)
(* Request inputs.                                                         *)
(***************************************************************************)
strMars == <<"M","a","r","s">>

strHi == <<"h","i">>

strCeres == <<"C","e","r","e","s">>

strVesta == <<"V","e","s","t","a">>

\* values of req.body.message
ChatMessages == {Absent, Str(<<>>), Str(strMars), Str(strHi)}

\* values of req.body.asteroidName
AsteroidNames == {Absent, Str(<<>>), Str(strCeres), Str(strVesta)}

(***************************************************************************)
(* State.                                                                  *)
(*   currentModel  the module variable `currentModel`                      *)
(*   pc            where each client's request is:                         *)
(*                 "idle"  no request of this client is being handled      *)
(*                 "chat" "asteroid" "quick" "models" "tg_primary"         *)
(*                 "tg_fallback"  the handler awaits that upstream call    *)
(*                 "done"  the handler has returned or thrown              *)
(*   req           the request: its route and its body property            *)
(*   sentModel     the model the awaited upstream call is addressed to     *)
(*   fbIndex       /test-gemini: position of the loop in fallbackModels    *)
(*   lastOutcome   how the request's most recent upstream call settled,    *)
(*                 "none" while none has                                    *)
(*   resp          the responses sent for the request, in order            *)
(*   calls         number of upstream calls the request has issued         *)
(*   models        /models: the list of model descriptors the upstream     *)
(*                 reply carried, `response.data.models || []`             *)
(***************************************************************************)
VARIABLES currentModel, pc, req, sentModel, fbIndex, lastOutcome, resp, calls,
          models

vars == <<currentModel, pc, req, sentModel, fbIndex, lastOutcome, resp, calls,
          models>>

Clients == 1..NumClients

NoRequest == [op |-> "none", arg |-> Absent]

\* A JSON payload with its HTTP status.  `model` is the payload's model or
\* currentModel property, "absent" when the payload has neither.
\* `tried` is the triedModels property, <<>> when the payload has none.
\* `models` is the models property of the /models payload, <<>> elsewhere.
Payload(status, success, model, response, asteroid) ==
    [status |-> status, success |-> success, model |-> model,
     response |-> response, asteroid |-> asteroid, tried |-> <<>>,
     models |-> <<>>]

\* the answer of the framework's default error handler
FrameworkError == Payload(500, "absent", "absent", NoText, Absent)

Init ==
    /\ currentModel = DefaultModel
    /\ pc = [p \in Clients |-> "idle"]
    /\ req = [p \in Clients |-> NoRequest]
    /\ sentModel = [p \in Clients |-> "none"]
    /\ fbIndex = [p \in Clients |-> 0]
    /\ lastOutcome = [p \in Clients |-> "none"]
    /\ resp = [p \in Clients |-> <<>>]
    /\ calls = [p \in Clients |-> 0]
    /\ models = [p \in Clients |-> <<>>]

(***************************************************************************)
(* Building blocks of the handlers.                                        *)
(***************************************************************************)
\* getGeminiUrl(): the model the URL addresses, `model || currentModel`
\* with model = null at every call site
getGeminiUrl == currentModel

\* the request of client p is accepted by route op with body property arg
Accept(p, op, arg) ==
    /\ pc[p] = "idle"
    /\ req' = [req EXCEPT ![p] = [op |-> op, arg |-> arg]]

\* res.json / res.status(..).json: the handler answers and returns
Respond(p, payload) ==
    /\ resp' = [resp EXCEPT ![p] = Append(@, payload)]
    /\ pc' = [pc EXCEPT ![p] = "done"]
    /\ sentModel' = [sentModel EXCEPT ![p] = "none"]
    /\ fbIndex' = [fbIndex EXCEPT ![p] = 0]

\* an exception escapes the async handler
Throw(p, u) ==
    /\ resp' = [resp EXCEPT ![p] = IF u = "framework500"
                                   THEN Append(@, FrameworkError) ELSE @]
    /\ pc' = [pc EXCEPT ![p] = "done"]
    /\ sentModel' = [sentModel EXCEPT ![p] = "none"]
    /\ fbIndex' = [fbIndex EXCEPT ![p] = 0]

\* await axios.post/get(...): the handler issues an upstream call addressed
\* to model m and suspends at label l
Await(p, l, m) ==
    /\ pc' = [pc EXCEPT ![p] = l]
    /\ sentModel' = [sentModel EXCEPT ![p] = m]
    /\ calls' = [calls EXCEPT ![p] = @ + 1]

\* the upstream call client p awaits at label l settles
Settle(p, l) == pc[p] = l

\* the outcome o of the call that settled is remembered
Outcome(p, o) == lastOutcome' = [lastOutcome EXCEPT ![p] = o]

(***************************************************************************)
(* Synchronous routes: /test, /health, /echo.                              *)
(***************************************************************************)
Test(p) ==
    /\ Accept(p, "test", Absent)
    /\ Respond(p, Payload(200, "absent", currentModel, Text("ai-server-is-running"), Absent))
    /\ UNCHANGED <<currentModel, lastOutcome, calls, models>>

Health(p) ==
    /\ Accept(p, "health", Absent)
    /\ Respond(p, Payload(200, "absent", currentModel, Text("healthy"), Absent))
    /\ UNCHANGED <<currentModel, lastOutcome, calls, models>>

strSilence == <<"S","i","l","e","n","c","e"," ","i","n"," ","s","p","a","c","e",".",".",".">>

\* `Echo from Stellar Observatory: "${message || 'Silence in space...'}"`
Echo(p, message) ==
    /\ Accept(p, "echo", message)
    /\ Respond(p, Payload(200, "absent", currentModel,
                          Template("echo", IF Truthy(message) THEN message.chars
                                                              ELSE strSilence),
                          Absent))
    /\ UNCHANGED <<currentModel, lastOutcome, calls, models>>

(***************************************************************************)
(* POST /chat.                                                             *)
(***************************************************************************)
\* for (const model of fallbackModels) { if (model !== currentModel) {
\*     currentModel = model; break; } }   -- the loop from position i on
RECURSIVE switchFrom(_, _)
switchFrom(cur, i) ==
    IF i > Len(chatFallbackModels) THEN cur
    ELSE IF chatFallbackModels[i] # cur THEN chatFallbackModels[i]
    ELSE switchFrom(cur, i + 1)

\* Variant of switchModel: the first list entry is taken without comparing
\* it with currentModel.
switchModel_first(cur) == chatFallbackModels[1]

\* the value of currentModel after the 404 branch of the catch block
switchModel(cur) == switchFrom(cur, 1)

\* Variant of ChatCatch: the model is switched on every failure that is not
\* a rate limit (the test for status 404 is missing).
ChatCatch_switchAlways(p, status, m) ==
    IF status = 429
    THEN /\ Respond(p, Payload(429, "false", currentModel, RateLimitText, Absent))
         /\ UNCHANGED currentModel
    ELSE /\ currentModel' = switchModel(currentModel)
         /\ Respond(p, Payload(200, "false", currentModel',
                                pickFallback(IF Truthy(m) THEN m.chars ELSE <<>>),
                                Absent))

\* Variant of ChatCatch: the rate-limit branch is missing, a 429 is handled
\* like every other failure.
ChatCatch_noRateLimit(p, status, m) ==
    /\ currentModel' = IF status = 404 THEN switchModel(currentModel)
                                       ELSE currentModel
    /\ Respond(p, Payload(200, "false", currentModel',
                           pickFallback(IF Truthy(m) THEN m.chars ELSE <<>>),
                           Absent))

\* The catch block of /chat, entered with error.response?.status = status
\* (0 when the error carries no response) for the request message m.
ChatCatch(p, status, m) ==
    IF status = 429
    THEN /\ Respond(p, Payload(429, "false", currentModel, RateLimitText, Absent))
         /\ UNCHANGED currentModel
    ELSE /\ currentModel' = IF status = 404 THEN switchModel(currentModel)
                                            ELSE currentModel
         /\ Respond(p, Payload(200, "false", currentModel',
                                pickFallback(IF Truthy(m) THEN m.chars ELSE <<>>),
                                Absent))

\* the request arrives: validation, then the upstream call is issued
Chat(p, message) ==
    /\ Accept(p, "chat", message)
    /\ IF ~Truthy(message)
       THEN /\ Respond(p, Payload(400, "absent", "absent", NoText, Absent))
            /\ UNCHANGED <<currentModel, calls>>
       ELSE /\ Await(p, "chat", getGeminiUrl)
            /\ UNCHANGED <<currentModel, resp, fbIndex>>
    /\ UNCHANGED <<lastOutcome, models>>

\* the upstream call settles
ChatResume(p, o) ==
    /\ Settle(p, "chat")
    /\ IF HasText(o)
       THEN /\ Respond(p, Payload(200, "true", currentModel, AiText, Absent))
            /\ UNCHANGED currentModel
       ELSE ChatCatch(p, ErrorStatus(o), req[p].arg)
    /\ UNCHANGED <<req, calls>>
    /\ UNCHANGED models
    /\ Outcome(p, o)

(***************************************************************************)
(* POST /asteroid-info.                                                    *)
(***************************************************************************)
\* Variant of AsteroidInfo: the check of asteroidName is left out, every
\* request goes upstream.
AsteroidInfo_noValidation(p, asteroidName) ==
    /\ Accept(p, "asteroid-info", asteroidName)
    /\ Await(p, "asteroid", getGeminiUrl)
    /\ UNCHANGED <<resp, fbIndex>>
    /\ UNCHANGED <<currentModel, lastOutcome, models>>

AsteroidInfo(p, asteroidName) ==
    /\ Accept(p, "asteroid-info", asteroidName)
    /\ IF ~Truthy(asteroidName)
       THEN /\ Respond(p, Payload(200, "false", "absent", Text("please-specify"), Absent))
            /\ UNCHANGED calls
       ELSE /\ Await(p, "asteroid", getGeminiUrl)
            /\ UNCHANGED <<resp, fbIndex>>
    /\ UNCHANGED <<currentModel, lastOutcome, models>>

\* The catch block of /asteroid-info.  `asteroidName` is declared with const
\* inside the try block, so the catch block's first use of it
\* (asteroidName.toLowerCase()) throws a ReferenceError before res.json.
AsteroidInfoCatch(p) ==
    \E u \in UnhandledOutcomes : Throw(p, u)

AsteroidInfoResume(p, o) ==
    /\ Settle(p, "asteroid")
    /\ IF Resolved(o)
       \* no check of aiResponse: an empty reply is answered as a success
       THEN Respond(p, Payload(200, "true", currentModel,
                               IF HasText(o) THEN AiText ELSE NoText, req[p].arg))
       ELSE AsteroidInfoCatch(p)
    /\ UNCHANGED <<currentModel, req, calls>>
    /\ UNCHANGED models
    /\ Outcome(p, o)

(***************************************************************************)
(* GET /test-gemini.                                                       *)
(***************************************************************************)
TestGemini(p) ==
    /\ Accept(p, "test-gemini", Absent)
    /\ Await(p, "tg_primary", currentModel)
    /\ UNCHANGED <<currentModel, resp, fbIndex, lastOutcome, models>>

\* Variant of TestGeminiPrimaryResume: a failed primary call is answered 500
\* at once, without the loop over fallbackModels.
TestGeminiPrimaryResume_noFallback(p, o) ==
    /\ Settle(p, "tg_primary")
    /\ IF HasText(o)
       THEN Respond(p, Payload(200, "true", currentModel, AiText, Absent))
       ELSE Respond(p, [Payload(500, "false", currentModel, NoText, Absent)
                          EXCEPT !.tried = testFallbackModels])
    /\ UNCHANGED <<currentModel, req, calls>>
    /\ UNCHANGED models
    /\ Outcome(p, o)

\* the call with currentModel settles; on failure the loop over
\* fallbackModels starts with its first attempt
TestGeminiPrimaryResume(p, o) ==
    /\ Settle(p, "tg_primary")
    /\ IF HasText(o)
       THEN /\ Respond(p, Payload(200, "true", currentModel, AiText, Absent))
            /\ UNCHANGED calls
       ELSE /\ fbIndex' = [fbIndex EXCEPT ![p] = 1]
            /\ Await(p, "tg_fallback", testFallbackModels[1])
            /\ UNCHANGED resp
    /\ UNCHANGED <<currentModel, req>>
    /\ UNCHANGED models
    /\ Outcome(p, o)

\* Variant of TestGeminiFallbackResume: currentModel is assigned for every
\* attempt, before its reply is inspected.
TestGeminiFallbackResume_eager(p, o) ==
    /\ Settle(p, "tg_fallback")
    /\ LET model == testFallbackModels[fbIndex[p]]
       IN  /\ currentModel' = model
           /\ IF HasText(o)
              THEN /\ Respond(p, Payload(200, "true", model, NoText, Absent))
                   /\ UNCHANGED calls
              ELSE IF fbIndex[p] < Len(testFallbackModels)
              THEN /\ fbIndex' = [fbIndex EXCEPT ![p] = @ + 1]
                   /\ Await(p, "tg_fallback", testFallbackModels[fbIndex[p] + 1])
                   /\ UNCHANGED resp
              ELSE /\ Respond(p, [Payload(500, "false", model, NoText, Absent)
                                    EXCEPT !.tried = testFallbackModels])
                   /\ UNCHANGED calls
    /\ UNCHANGED req
    /\ UNCHANGED models
    /\ Outcome(p, o)

\* Variant of TestGeminiFallbackResume: after the last entry has failed the
\* loop starts over with the first.
TestGeminiFallbackResume_wrap(p, o) ==
    /\ Settle(p, "tg_fallback")
    /\ LET model == testFallbackModels[fbIndex[p]]
           next == IF fbIndex[p] < Len(testFallbackModels) THEN fbIndex[p] + 1 ELSE 1
       IN  IF HasText(o)
           THEN /\ currentModel' = model
                /\ Respond(p, Payload(200, "true", model, NoText, Absent))
                /\ UNCHANGED calls
           ELSE /\ fbIndex' = [fbIndex EXCEPT ![p] = next]
                /\ Await(p, "tg_fallback", testFallbackModels[next])
                /\ UNCHANGED <<currentModel, resp>>
    /\ UNCHANGED req
    /\ UNCHANGED models
    /\ Outcome(p, o)

\* one attempt of the loop settles
TestGeminiFallbackResume(p, o) ==
    /\ Settle(p, "tg_fallback")
    /\ LET model == testFallbackModels[fbIndex[p]]
       IN  IF HasText(o)
           THEN /\ currentModel' = model
                /\ Respond(p, Payload(200, "true", model, NoText, Absent))
                /\ UNCHANGED calls
           ELSE IF fbIndex[p] < Len(testFallbackModels)
           THEN /\ fbIndex' = [fbIndex EXCEPT ![p] = @ + 1]
                /\ Await(p, "tg_fallback", testFallbackModels[fbIndex[p] + 1])
                /\ UNCHANGED <<currentModel, resp>>
           ELSE /\ Respond(p, [Payload(500, "false", currentModel, NoText, Absent)
                                 EXCEPT !.tried = testFallbackModels])
                /\ UNCHANGED <<currentModel, calls>>
    /\ UNCHANGED req
    /\ UNCHANGED models
    /\ Outcome(p, o)

(***************************************************************************)
(* GET /quick-test.                                                        *)
(***************************************************************************)
QuickTest(p) ==
    /\ Accept(p, "quick-test", Absent)
    /\ Await(p, "quick", getGeminiUrl)
    /\ UNCHANGED <<currentModel, resp, fbIndex, lastOutcome, models>>

\* Variant of QuickTestResume: the catch block answers with status 500.
QuickTestResume_status500(p, o) ==
    /\ Settle(p, "quick")
    /\ IF Resolved(o)
       THEN Respond(p, Payload(200, "true", currentModel,
                               IF HasText(o) THEN AiText ELSE NoText, Absent))
       ELSE Respond(p, Payload(500, "false", currentModel, NoText, Absent))
    /\ UNCHANGED <<currentModel, req, calls>>
    /\ UNCHANGED models
    /\ Outcome(p, o)

QuickTestResume(p, o) ==
    /\ Settle(p, "quick")
    /\ IF Resolved(o)
       THEN Respond(p, Payload(200, "true", currentModel,
                               IF HasText(o) THEN AiText ELSE NoText, Absent))
       ELSE Respond(p, Payload(200, "false", currentModel, NoText, Absent))
    /\ UNCHANGED <<currentModel, req, calls>>
    /\ UNCHANGED models
    /\ Outcome(p, o)

(***************************************************************************)
(* The model descriptors of the upstream listing and what /models makes of *)
(* them.  A descriptor has a name (absent or a string) and its             *)
(* supportedGenerationMethods (absent or an array of method names).        *)
(***************************************************************************)
NoArray == [kind |-> "absent", items |-> <<>>]

Array(items) == [kind |-> "array", items |-> items]

Descriptor(name, methods) == [name |-> name, supportedGenerationMethods |-> methods]

\* Array.prototype.includes
arrayIncludes(items, x) == \E i \in 1..Len(items) : items[i] = x

strModelsPrefix == <<"m","o","d","e","l","s","/">>

strEmbedding == <<"e","m","b","e","d","d","i","n","g">>

strImagen == <<"i","m","a","g","e","n">>

strVeo == <<"v","e","o">>

strAudio == <<"a","u","d","i","o">>

strTts == <<"t","t","s">>

strFlash == <<"f","l","a","s","h">>

\* String.prototype.indexOf, -1 when sub does not occur
indexOf(s, sub) ==
    IF includes(s, sub)
    THEN CHOOSE i \in 0..(Len(s) - Len(sub)) :
             /\ SubSeq(s, i + 1, i + Len(sub)) = sub
             /\ \A j \in 0..(i - 1) : SubSeq(s, j + 1, j + Len(sub)) # sub
    ELSE -1

\* String.prototype.replace with a string pattern: the first occurrence of
\* pattern is replaced
replace(s, pattern, replacement) ==
    LET i == indexOf(s, pattern)
    IN  IF i = -1 THEN s
        ELSE SubSeq(s, 1, i) \o replacement \o SubSeq(s, i + Len(pattern) + 1, Len(s))

\* Variant of isTextModel: only the supported methods are tested, not the name.
isTextModel_methodsOnly(model) ==
    /\ model.supportedGenerationMethods.kind = "array"
    /\ arrayIncludes(model.supportedGenerationMethods.items, "generateContent")

\* the predicate of .filter
isTextModel(model) ==
    /\ Truthy(model.name)
    /\ model.supportedGenerationMethods.kind = "array"
    /\ arrayIncludes(model.supportedGenerationMethods.items, "generateContent")
    /\ ~includes(model.name.chars, strEmbedding)
    /\ ~includes(model.name.chars, strImagen)
    /\ ~includes(model.name.chars, strVeo)
    /\ ~includes(model.name.chars, strAudio)
    /\ ~includes(model.name.chars, strTts)

\* the function of .map (displayName and description are carried through
\* unread and are left out)
listedModel(model) ==
    [name |-> replace(model.name.chars, strModelsPrefix, <<>>),
     supportedMethods |-> model.supportedGenerationMethods.items]

\* The characters of model names in the order of the default collation:
\* punctuation, then digits, then letters.
CollationOrder ==
    <<"-", ".", "0", "1", "2", "3", "4", "5", "6", "7", "8", "9",
      "a", "b", "c", "d", "e", "f", "g", "h", "i", "j", "k", "l", "m",
      "n", "o", "p", "q", "r", "s", "t", "u", "v", "w", "x", "y", "z">>

collationKey(c) == CHOOSE i \in 1..Len(CollationOrder) : CollationOrder[i] = c

\* String.prototype.localeCompare on names over the characters above:
\* negative, zero or positive
RECURSIVE localeCompare(_, _)
localeCompare(a, b) ==
    IF a = <<>> THEN (IF b = <<>> THEN 0 ELSE -1)
    ELSE IF b = <<>> THEN 1
    ELSE IF Head(a) = Head(b) THEN localeCompare(Tail(a), Tail(b))
    ELSE IF collationKey(Head(a)) < collationKey(Head(b)) THEN -1 ELSE 1

\* Variant of compareModels: the names alone are compared.
compareModels_byName(a, b) == localeCompare(a.name, b.name)

\* the comparator of .sort
compareModels(a, b) ==
    IF includes(a.name, strFlash) /\ ~includes(b.name, strFlash) THEN -1
    ELSE IF ~includes(a.name, strFlash) /\ includes(b.name, strFlash) THEN 1
    ELSE localeCompare(a.name, b.name)

\* Array.prototype.sort with the comparator: a stable sort
RECURSIVE insertSorted(_, _)
insertSorted(s, x) ==
    IF s = <<>> THEN <<x>>
    ELSE IF compareModels(x, Head(s)) < 0 THEN <<x>> \o s
    ELSE <<Head(s)>> \o insertSorted(Tail(s), x)

RECURSIVE sort(_)
sort(list) ==
    IF list = <<>> THEN <<>>
    ELSE insertSorted(sort(SubSeq(list, 1, Len(list) - 1)), list[Len(list)])

\* models.filter(..).map(..).sort(..)
textModels(list) ==
    LET kept == SelectSeq(list, isTextModel)
    IN  sort([i \in 1..Len(kept) |-> listedModel(kept[i])])

\* Descriptors the upstream listing can carry: text models with and without
\* "flash" in the name, models of the excluded families that announce
\* generateContent, models without generateContent, a descriptor without
\* methods and one without name.
UpstreamModels == {
    Descriptor(Str(<<"m","o","d","e","l","s","/","g","e","m","i","n","i","-","2",".","5","-","f","l","a","s","h">>),
               Array(<<"generateContent", "countTokens">>)),
    Descriptor(Str(<<"m","o","d","e","l","s","/","g","e","m","i","n","i","-","2",".","0","-","f","l","a","s","h">>),
               Array(<<"generateContent">>)),
    Descriptor(Str(<<"m","o","d","e","l","s","/","g","e","m","i","n","i","-","p","r","o","-","l","a","t","e","s","t">>),
               Array(<<"generateContent", "countTokens">>)),
    Descriptor(Str(<<"m","o","d","e","l","s","/","g","e","m","i","n","i","-","1",".","5","-","p","r","o">>),
               Array(<<"generateContent">>)),
    Descriptor(Str(<<"m","o","d","e","l","s","/","g","e","m","i","n","i","-","e","m","b","e","d","d","i","n","g","-","e","x","p">>),
               Array(<<"embedContent", "generateContent">>)),
    Descriptor(Str(<<"m","o","d","e","l","s","/","t","e","x","t","-","e","m","b","e","d","d","i","n","g","-","0","0","4">>),
               Array(<<"embedContent">>)),
    Descriptor(Str(<<"m","o","d","e","l","s","/","g","e","m","i","n","i","-","2",".","5","-","f","l","a","s","h","-","p","r","e","v","i","e","w","-","t","t","s">>),
               Array(<<"generateContent", "countTokens">>)),
    Descriptor(Str(<<"m","o","d","e","l","s","/","g","e","m","i","n","i","-","2",".","5","-","f","l","a","s","h","-","n","a","t","i","v","e","-","a","u","d","i","o">>),
               Array(<<"generateContent">>)),
    Descriptor(Str(<<"m","o","d","e","l","s","/","v","e","o","-","2",".","0","-","g","e","n","e","r","a","t","e">>),
               Array(<<"generateContent", "predictLongRunning">>)),
    Descriptor(Str(<<"m","o","d","e","l","s","/","i","m","a","g","e","n","-","3",".","0","-","g","e","n","e","r","a","t","e">>),
               Array(<<"generateContent", "predict">>)),
    Descriptor(Str(<<"m","o","d","e","l","s","/","c","h","a","t","-","b","i","s","o","n">>),
               Array(<<"generateMessage", "countMessageTokens">>)),
    Descriptor(Str(<<"m","o","d","e","l","s","/","a","q","a">>),
               NoArray),
    Descriptor(Absent,
               Array(<<"generateContent">>)) }

MaxModels == 3

\* the upstream listings of up to MaxModels descriptors
ModelLists == UNION {[1..n -> UpstreamModels] : n \in 0..MaxModels}

\* the two listings the requests of Spec are answered with
SampleLists == {
    <<>>,
    <<
    Descriptor(Str(<<"m","o","d","e","l","s","/","g","e","m","i","n","i","-","p","r","o","-","l","a","t","e","s","t">>),
               Array(<<"generateContent", "countTokens">>)),
    Descriptor(Str(<<"m","o","d","e","l","s","/","g","e","m","i","n","i","-","2",".","5","-","f","l","a","s","h","-","p","r","e","v","i","e","w","-","t","t","s">>),
               Array(<<"generateContent", "countTokens">>)),
    Descriptor(Str(<<"m","o","d","e","l","s","/","g","e","m","i","n","i","-","2",".","0","-","f","l","a","s","h">>),
               Array(<<"generateContent">>)),
    Descriptor(Str(<<"m","o","d","e","l","s","/","g","e","m","i","n","i","-","2",".","5","-","f","l","a","s","h">>),
               Array(<<"generateContent", "countTokens">>)) >> }

(***************************************************************************)
(* GET /models.  The upstream call lists the models; it is addressed to    *)
(* no model.                                                               *)
(***************************************************************************)
Models(p) ==
    /\ Accept(p, "models", Absent)
    /\ Await(p, "models", "none")
    /\ UNCHANGED <<currentModel, resp, fbIndex, lastOutcome, models>>

\* the listing call settles; lists are the values response.data.models can
\* have in a reply that has the property, a reply without it gives []
ModelsResume(p, o, lists) ==
    /\ Settle(p, "models")
    /\ IF Resolved(o)
       THEN \E list \in IF HasText(o) THEN lists ELSE {<<>>} :
                /\ models' = [models EXCEPT ![p] = list]
                /\ Respond(p, [Payload(200, "true", currentModel, NoText, Absent)
                                 EXCEPT !.models = textModels(list)])
       ELSE /\ UNCHANGED models
            /\ Respond(p, Payload(200, "false", currentModel, NoText, Absent))
    /\ UNCHANGED <<currentModel, req, calls>>
    /\ Outcome(p, o)

(***************************************************************************)
(* The exchange is over: the client's slot is free for its next request.   *)
(***************************************************************************)
Close(p) ==
    /\ pc[p] = "done"
    /\ pc' = [pc EXCEPT ![p] = "idle"]
    /\ req' = [req EXCEPT ![p] = NoRequest]
    /\ resp' = [resp EXCEPT ![p] = <<>>]
    /\ calls' = [calls EXCEPT ![p] = 0]
    /\ lastOutcome' = [lastOutcome EXCEPT ![p] = "none"]
    /\ models' = [models EXCEPT ![p] = <<>>]
    /\ UNCHANGED <<currentModel, sentModel, fbIndex>>

Next ==
    \E p \in Clients :
        \/ Test(p)
        \/ Health(p)
        \/ \E m \in ChatMessages : Echo(p, m)
        \/ \E m \in ChatMessages : Chat(p, m)
        \/ \E o \in Outcomes : ChatResume(p, o)
        \/ \E n \in AsteroidNames : AsteroidInfo(p, n)
        \/ \E o \in Outcomes : AsteroidInfoResume(p, o)
        \/ TestGemini(p)
        \/ \E o \in Outcomes : TestGeminiPrimaryResume(p, o)
        \/ \E o \in Outcomes : TestGeminiFallbackResume(p, o)
        \/ QuickTest(p)
        \/ \E o \in Outcomes : QuickTestResume(p, o)
        \/ Models(p)
        \/ \E o \in Outcomes : ModelsResume(p, o, SampleLists)
        \/ Close(p)

Spec == Init /\ [][Next]_vars

(***************************************************************************)
(* SpecPick: one client sends chat requests whose messages are built from  *)
(* fragments, so that keywords occur in either case, several at once, and  *)
(* across fragment boundaries ("aster" + "OID", "mu" + "star").            *)
(***************************************************************************)
Fragments == {
    <<"a","s","t","e","r">>,
    <<"O","I","D">>,
    <<"N","E","O">>,
    <<"M","a","r","s">>,
    <<"p","l","a","n","e","t">>,
    <<"m","o","o","n">>,
    <<"L","u","n","a","r">>,
    <<"m","u">>,
    <<"s","t","a","r">>,
    <<"G","a","l","a","x","y">>,
    <<"r","i","s","k">>,
    <<"D","A","N","G","E","R">>,
    <<"h","i"," ">>}

RECURSIVE concat(_)
concat(ss) == IF ss = <<>> THEN <<>> ELSE Head(ss) \o concat(Tail(ss))

PickMessages ==
    {Str(concat(fs)) : fs \in UNION {[1..n -> Fragments] : n \in 0..MaxFrags}}

NextPick ==
    \E p \in {1} :
        \/ \E m \in PickMessages : Chat(p, m)
        \/ \E o \in Outcomes : ChatResume(p, o)
        \/ Close(p)

SpecPick == Init /\ [][NextPick]_vars

(***************************************************************************)
(* The catalog lookup of /asteroid-info over a wide set of names: names    *)
(* are built from up to MaxNameFrags fragments, so that known names occur  *)
(* in several letter cases, with blanks before and after, next to names   *)
(* the catalog does not have.                                              *)
(***************************************************************************)
MaxNameFrags == 3

NameFragments == {
    <<" ">>,
    <<"\t">>,
    <<"b","e","n","n","u">>,
    <<"B","E","N","N","U">>,
    <<"E","r","o","s">>,
    <<"V","e","s","t","a">>,
    <<"c","o","n","s","t","r","u","c","t","o","r">>,
    <<"x">> }

CatalogNames ==
    {Str(concat(fs)) : fs \in UNION {[1..n -> NameFragments] : n \in 1..MaxNameFrags}}

NextCatalog ==
    \E p \in {1} :
        \/ \E n \in CatalogNames : AsteroidInfo(p, n)
        \/ \E o \in Outcomes : AsteroidInfoResume(p, o)
        \/ Close(p)

SpecCatalog == Init /\ [][NextCatalog]_vars

(***************************************************************************)
(* /models over every upstream listing of up to MaxModels descriptors.     *)
(***************************************************************************)
NextModels ==
    \E p \in {1} :
        \/ Models(p)
        \/ \E o \in Outcomes : ModelsResume(p, o, ModelLists)
        \/ Close(p)

SpecModels == Init /\ [][NextModels]_vars

(***************************************************************************)
(* /chat alone: every client sends chat requests only.                     *)
(***************************************************************************)
NextChat ==
    \E p \in Clients :
        \/ \E m \in ChatMessages : Chat(p, m)
        \/ \E o \in Outcomes : ChatResume(p, o)
        \/ Close(p)

SpecChat == Init /\ [][NextChat]_vars

(***************************************************************************)
(* /test-gemini alone, with every upstream call settling: axios resolves,  *)
(* rejects or times out each call (timeout: 15000 and timeout: 5000), so   *)
(* a handler that awaits a call is resumed.                                *)
(***************************************************************************)
NextTest ==
    \E p \in Clients :
        \/ TestGemini(p)
        \/ \E o \in Outcomes : TestGeminiPrimaryResume(p, o)
        \/ \E o \in Outcomes : TestGeminiFallbackResume(p, o)
        \/ Close(p)

CallsSettle ==
    \A p \in Clients :
        /\ WF_vars(\E o \in Outcomes : TestGeminiPrimaryResume(p, o))
        /\ WF_vars(\E o \in Outcomes : TestGeminiFallbackResume(p, o))

SpecTest == Init /\ [][NextTest]_vars /\ CallsSettle

(***************************************************************************)
(* Properties.                                                             *)
(***************************************************************************)
Is2xx(status) == status >= 200 /\ status <= 299

\* the handler of client p has ended after an upstream call that failed:
\* an error status, a timeout, a network error or a reply without text
UpstreamFailed(p) == pc[p] = "done" /\ lastOutcome[p] \notin {"none", "ok"}

\* a message that is absent or the empty string
AbsentOrEmpty(v) == v.kind = "absent" \/ (v.kind = "string" /\ v.chars = <<>>)

\* steps of the handlers, recognised by what they do to the state
ChatArrivalStep(p) == pc[p] = "idle" /\ pc'[p] # "idle" /\ req'[p].op = "chat"

ChatFailureStep(p) ==
    pc[p] = "chat" /\ pc'[p] = "done" /\ lastOutcome'[p] # "ok"

ChatNotFoundStep(p) ==
    pc[p] = "chat" /\ pc'[p] = "done" /\ lastOutcome'[p] = "e404"

FallbackPromotionStep(p) ==
    pc[p] = "tg_fallback" /\ pc'[p] = "done" /\ lastOutcome'[p] = "ok"

\* C1 (as claimed): the only answers with a non-2xx status are the 400 of a
\* chat request without message and the 500 of a model test whose every
\* attempt failed; every upstream failure in chat, asteroid info, quick
\* test and model listing is answered with a 2xx status.
C1_OnlyValidationAndExhaustionNon2xx ==
    \A p \in Clients :
        pc[p] = "done" =>
            /\ \A i \in 1..Len(resp[p]) :
                 ~Is2xx(resp[p][i].status) =>
                     \/ /\ req[p].op = "chat"
                        /\ AbsentOrEmpty(req[p].arg)
                        /\ resp[p][i].status = 400
                     \/ /\ req[p].op = "test-gemini"
                        /\ lastOutcome[p] \notin {"none", "ok"}
                        /\ resp[p][i].status = 500
            /\ (/\ req[p].op \in {"chat", "asteroid-info", "quick-test", "models"}
                /\ UpstreamFailed(p))
               => (Len(resp[p]) = 1 /\ Is2xx(resp[p][1].status))

\* C2: a chat request whose message is absent or empty is answered 400 in
\* the step in which it arrives, issues no upstream call and leaves
\* currentModel as it was.
C2_ChatValidation ==
    [][\A p \in Clients :
          (ChatArrivalStep(p) /\ AbsentOrEmpty(req'[p].arg)) =>
              /\ pc'[p] = "done"
              /\ Len(resp'[p]) = 1
              /\ resp'[p][1].status = 400
              /\ calls'[p] = 0
              /\ sentModel'[p] = "none"
              /\ currentModel' = currentModel]_vars

C2_Witness ==
    \E p \in Clients :
        /\ pc[p] = "done"
        /\ req[p] = [op |-> "chat", arg |-> Str(<<>>)]
        /\ Len(resp[p]) = 1
        /\ resp[p][1].status = 400
        /\ calls[p] = 0

\* C3: currentModel starts as gemini-2.5-flash and changes only in the step
\* in which /chat handles a 404 failure or in which a fallback attempt of
\* /test-gemini succeeds; every other step leaves it unchanged.
C3_ActiveModelTransitions ==
    /\ currentModel = "gemini-2.5-flash"
    /\ [][currentModel' # currentModel =>
            \E p \in Clients : ChatNotFoundStep(p) \/ FallbackPromotionStep(p)]_vars

C3_Witness ==
    \E p, q \in Clients :
        /\ pc[p] = "done" /\ req[p].op = "chat" /\ lastOutcome[p] = "e404"
        /\ pc[q] = "done" /\ req[q].op = "test-gemini" /\ lastOutcome[q] = "ok"
        /\ calls[q] > 1
        /\ currentModel # "gemini-2.5-flash"

\* C4: in every reachable state currentModel is one of the five known model
\* identifiers (so it is never empty or taken from a request or a reply).
C4_ActiveModelKnown ==
    currentModel \in {"gemini-2.5-flash", "gemini-2.0-flash", "gemini-pro-latest",
                      "gemini-exp-1206", "gemini-2.0-flash-001"}

C4_Witness ==
    /\ currentModel = "gemini-2.0-flash-001"
    /\ \E p \in Clients : pc[p] = "done" /\ req[p].op = "chat" /\ lastOutcome[p] = "e404"

\* C5: neither the arrival of a chat request nor the handling of its
\* upstream failure, when that failure is not a 404, changes currentModel,
\* and the answer's model field is that unchanged currentModel.
C5_NonNotFoundFailureKeepsModel ==
    [][\A p \in Clients :
          /\ ChatArrivalStep(p) => currentModel' = currentModel
          /\ (ChatFailureStep(p) /\ lastOutcome'[p] # "e404") =>
                /\ currentModel' = currentModel
                /\ Len(resp'[p]) = 1
                /\ resp'[p][1].model = currentModel]_vars

C5_Witness ==
    \E p \in Clients :
        /\ UpstreamFailed(p)
        /\ req[p].op = "chat"
        /\ lastOutcome[p] = "e429"
        /\ currentModel = "gemini-pro-latest"
        /\ resp[p][1].model = "gemini-pro-latest"

\* the ordered list the claim names
ChatOrder == <<"gemini-2.0-flash", "gemini-pro-latest", "gemini-exp-1206">>

\* C6: when /chat handles a 404 failure, currentModel becomes the first
\* entry of [gemini-2.0-flash, gemini-pro-latest, gemini-exp-1206] that
\* differs from the currentModel of that moment, and stays as it is only
\* when the list has no such entry.
C6_NotFoundSwitchesToFirstOther ==
    [][\A p \in Clients :
          ChatNotFoundStep(p) =>
              IF \E i \in 1..Len(ChatOrder) : ChatOrder[i] # currentModel
              THEN \E i \in 1..Len(ChatOrder) :
                      /\ ChatOrder[i] # currentModel
                      /\ \A j \in 1..(i - 1) : ChatOrder[j] = currentModel
                      /\ currentModel' = ChatOrder[i]
              ELSE currentModel' = currentModel]_vars

\* a 404 handled while currentModel is the list's first entry: the second
\* entry is chosen
C6_Witness ==
    \E p \in Clients :
        /\ UpstreamFailed(p)
        /\ req[p].op = "chat"
        /\ lastOutcome[p] = "e404"
        /\ resp[p][1].model = "gemini-pro-latest"
        /\ currentModel = "gemini-pro-latest"

\* C7 (as claimed): every chat request with a non-empty message whose
\* upstream call fails, for whatever reason, is answered with success:false
\* and the text pickFallback chooses for the message.
C7_EveryFailureAnsweredByPickFallback ==
    \A p \in Clients :
        (UpstreamFailed(p) /\ req[p].op = "chat") =>
            /\ Len(resp[p]) = 1
            /\ resp[p][1].success = "false"
            /\ resp[p][1].response = pickFallback(req[p].arg.chars)

\* C7 (amended): such a request is answered with success:false; the text is
\* the fixed rate-limit text when the failure is a 429, and the text
\* pickFallback chooses for the message for every other failure.
C7_FailureAnsweredByFallbackOrRateLimitText ==
    \A p \in Clients :
        (UpstreamFailed(p) /\ req[p].op = "chat") =>
            /\ Len(resp[p]) = 1
            /\ resp[p][1].success = "false"
            /\ resp[p][1].response =
                   IF lastOutcome[p] = "e429"
                   THEN Text("cosmic-bandwidth-saturated")
                   ELSE pickFallback(req[p].arg.chars)

C7_Witness ==
    \E p, q \in Clients :
        /\ UpstreamFailed(p) /\ req[p] = [op |-> "chat", arg |-> Str(strMars)]
        /\ lastOutcome[p] = "e429"
        /\ resp[p][1].response = Text("cosmic-bandwidth-saturated")
        /\ UpstreamFailed(q) /\ req[q] = [op |-> "chat", arg |-> Str(strMars)]
        /\ lastOutcome[q] = "e404"
        /\ resp[q][1].response = Text("mars-connection-static")

\* Case-insensitive substring search, stated without the string functions
\* of the handlers.
CasePairs == {
    <<"A","a">>, <<"B","b">>, <<"C","c">>, <<"D","d">>, <<"E","e">>, <<"F","f">>,
    <<"G","g">>, <<"H","h">>, <<"I","i">>, <<"J","j">>, <<"K","k">>, <<"L","l">>,
    <<"M","m">>, <<"N","n">>, <<"O","o">>, <<"P","p">>, <<"Q","q">>, <<"R","r">>,
    <<"S","s">>, <<"T","t">>, <<"U","u">>, <<"V","v">>, <<"W","w">>, <<"X","x">>,
    <<"Y","y">>, <<"Z","z">>}

EqIgnoreCase(a, b) == a = b \/ <<a, b>> \in CasePairs \/ <<b, a>> \in CasePairs

OccursIgnoreCase(k, s) ==
    \E i \in 0..(Len(s) - Len(k)) : \A j \in 1..Len(k) : EqIgnoreCase(s[i + j], k[j])

\* the topic buckets in their priority order
Buckets == <<
    [keywords |-> {kwAsteroid, kwNeo}, text |-> Text("asteroid-info-from-local-database")],
    [keywords |-> {kwMars, kwPlanet},  text |-> Text("mars-connection-static")],
    [keywords |-> {kwMoon, kwLunar},   text |-> Text("lunar-signal-weak")],
    [keywords |-> {kwStar, kwGalaxy},  text |-> Text("stellar-interference")],
    [keywords |-> {kwRisk, kwDanger},  text |-> Text("risk-assessment-nominal")] >>

BucketMatches(i, s) == \E k \in Buckets[i].keywords : OccursIgnoreCase(k, s)

FirstBucketText(s) ==
    IF \E i \in 1..Len(Buckets) : BucketMatches(i, s)
    THEN Buckets[CHOOSE i \in 1..Len(Buckets) :
                    BucketMatches(i, s) /\ \A j \in 1..(i - 1) : ~BucketMatches(j, s)].text
    ELSE Text("interstellar-static")

\* C8: the fallback text of a failed chat request (other than a rate limit)
\* is the text of the first bucket, in the order asteroid/neo, mars/planet,
\* moon/lunar, star/galaxy, risk/danger, one of whose keywords occurs in
\* the message regardless of case, and the generic text when none does.
C8_FirstMatchingBucketWins ==
    \A p \in Clients :
        (UpstreamFailed(p) /\ req[p].op = "chat" /\ lastOutcome[p] # "e429") =>
            /\ Len(resp[p]) = 1
            /\ resp[p][1].response = FirstBucketText(req[p].arg.chars)

\* a message with keywords of two buckets, in upper case: the higher
\* priority wins
C8_Witness ==
    \E p \in Clients :
        /\ UpstreamFailed(p) /\ req[p].op = "chat" /\ lastOutcome[p] = "network"
        /\ req[p].arg = Str(<<"M","a","r","s","N","E","O">>)
        /\ resp[p][1].response = Text("asteroid-info-from-local-database")

\* C9 (as claimed): an asteroid-info request with a non-empty name whose
\* upstream call fails is answered with success:false, the catalog text for
\* the name, and the name itself.
C9_AsteroidFailureAnsweredFromCatalog ==
    \A p \in Clients :
        (/\ pc[p] = "done"
         /\ req[p].op = "asteroid-info"
         /\ lastOutcome[p] \in {"e404", "e429", "e500", "timeout", "network"}) =>
            /\ Len(resp[p]) = 1
            /\ resp[p][1].success = "false"
            /\ resp[p][1].response = asteroidFallback(req[p].arg.chars)
            /\ resp[p][1].asteroid = req[p].arg

\* C10 (as claimed): a handler never ends without having answered, and
\* never answers twice.
C10_ExactlyOneResponse ==
    \A p \in Clients : pc[p] = "done" => Len(resp[p]) = 1


AsteroidArrivalStep(p) ==
    pc[p] = "idle" /\ pc'[p] # "idle" /\ req'[p].op = "asteroid-info"

\* C11: an asteroid-info request whose asteroidName is absent or empty is
\* answered in the step in which it arrives, with a 2xx status,
\* success:false and the text asking for a name; it issues no upstream call
\* and leaves currentModel as it was.
C11_AsteroidValidation ==
    [][\A p \in Clients :
          (AsteroidArrivalStep(p) /\ AbsentOrEmpty(req'[p].arg)) =>
              /\ pc'[p] = "done"
              /\ Len(resp'[p]) = 1
              /\ Is2xx(resp'[p][1].status)
              /\ resp'[p][1].success = "false"
              /\ resp'[p][1].response = Text("please-specify")
              /\ calls'[p] = 0
              /\ sentModel'[p] = "none"
              /\ currentModel' = currentModel]_vars

C11_Witness ==
    \E p \in Clients :
        /\ pc[p] = "done"
        /\ req[p] = [op |-> "asteroid-info", arg |-> Absent]
        /\ Len(resp[p]) = 1
        /\ resp[p][1].success = "false"
        /\ resp[p][1].response = Text("please-specify")
        /\ calls[p] = 0


\* the fixed order of the fallback attempts of the model test
TestOrder ==
    <<"gemini-2.0-flash", "gemini-pro-latest", "gemini-exp-1206",
      "gemini-2.0-flash-001">>

TestOrderIndex(m) == CHOOSE i \in 1..Len(TestOrder) : TestOrder[i] = m

\* steps of the model test in which an upstream call settles
TestPrimaryStep(p) == pc[p] = "tg_primary" /\ pc'[p] # "tg_primary"

TestFallbackStep(p) ==
    pc[p] = "tg_fallback" /\ (pc'[p] # "tg_fallback" \/ calls'[p] # calls[p])

\* C12: when the primary call of the model test has no text, the next call
\* goes to the first entry of the fixed order; while a fallback attempt is
\* awaited every earlier call has failed and each entry so far was tried
\* once; a failed attempt is followed by one call to the next entry; an
\* attempt with text makes its model currentModel and ends the request with
\* no further call.
C12_FallbackOrder ==
    [][\A p \in Clients :
          /\ TestPrimaryStep(p) =>
                IF lastOutcome'[p] = "ok"
                THEN pc'[p] = "done" /\ calls'[p] = calls[p]
                ELSE /\ pc'[p] = "tg_fallback"
                     /\ sentModel'[p] = TestOrder[1]
                     /\ calls'[p] = calls[p] + 1
          /\ pc[p] = "tg_fallback" =>
                /\ \E i \in 1..Len(TestOrder) : sentModel[p] = TestOrder[i]
                /\ calls[p] = TestOrderIndex(sentModel[p]) + 1
                /\ lastOutcome[p] # "ok"
          /\ TestFallbackStep(p) =>
                LET i == TestOrderIndex(sentModel[p])
                IN  IF lastOutcome'[p] = "ok"
                    THEN /\ currentModel' = TestOrder[i]
                         /\ pc'[p] = "done"
                         /\ calls'[p] = calls[p]
                    ELSE /\ currentModel' = currentModel
                         /\ IF i < Len(TestOrder)
                            THEN /\ pc'[p] = "tg_fallback"
                                 /\ sentModel'[p] = TestOrder[i + 1]
                                 /\ calls'[p] = calls[p] + 1
                            ELSE pc'[p] = "done" /\ calls'[p] = calls[p]]_vars

C12_Witness ==
    \E p \in Clients :
        /\ pc[p] = "done"
        /\ req[p].op = "test-gemini"
        /\ lastOutcome[p] = "ok"
        /\ calls[p] = 3
        /\ currentModel = "gemini-pro-latest"


TestArrivalStep(p) ==
    pc[p] = "idle" /\ pc'[p] # "idle" /\ req'[p].op = "test-gemini"

\* the step in which the attempt with the last entry of the order fails
TestExhaustedStep(p) ==
    /\ TestFallbackStep(p)
    /\ sentModel[p] = TestOrder[Len(TestOrder)]
    /\ lastOutcome'[p] # "ok"

\* C13: the model test answers 500 exactly in the step in which the attempt
\* with the last fallback model fails (the primary call and every earlier
\* attempt having failed before); that answer carries success:false and
\* triedModels equal to the fallback list, and no step of the request has
\* changed currentModel; every other end of the model test is a 200 with
\* success:true.
C13_ExhaustionAnswered500 ==
    [][\A p \in Clients :
          /\ pc[p] = "tg_fallback" => lastOutcome[p] \notin {"none", "ok"}
          /\ TestExhaustedStep(p) => pc'[p] = "done"
          /\ ((TestPrimaryStep(p) \/ TestFallbackStep(p)) /\ pc'[p] = "done") =>
                /\ Len(resp'[p]) = 1
                /\ resp'[p][1].status = 500 <=> TestExhaustedStep(p)
                /\ IF TestExhaustedStep(p)
                   THEN /\ resp'[p][1].success = "false"
                        /\ resp'[p][1].tried = TestOrder
                   ELSE /\ resp'[p][1].status = 200
                        /\ resp'[p][1].success = "true"
                        /\ lastOutcome'[p] = "ok"
          /\ (\/ TestArrivalStep(p)
              \/ TestPrimaryStep(p)
              \/ (TestFallbackStep(p) /\ lastOutcome'[p] # "ok"))
             => currentModel' = currentModel]_vars

C13_Witness ==
    \E p \in Clients :
        /\ pc[p] = "done"
        /\ req[p].op = "test-gemini"
        /\ Len(resp[p]) = 1
        /\ resp[p][1].status = 500
        /\ resp[p][1].tried = TestOrder
        /\ calls[p] = 5
        /\ lastOutcome[p] = "timeout"


QuickArrivalStep(p) ==
    pc[p] = "idle" /\ pc'[p] # "idle" /\ req'[p].op = "quick-test"

QuickSettleStep(p) == pc[p] = "quick" /\ pc'[p] # "quick"

C15_NoTextNeverReportedAsSuccess ==
    \A p \in Clients :
        (/\ pc[p] = "done"
         /\ req[p].op \in {"chat", "asteroid-info", "test-gemini", "quick-test"}
         /\ lastOutcome[p] = "empty")
        => \A i \in 1..Len(resp[p]) : resp[p][i].success # "true"


ChatSuccessStep(p) ==
    pc[p] = "chat" /\ pc'[p] = "done" /\ lastOutcome'[p] = "ok"

\* C16 (as claimed): the model field of every successful chat answer is the
\* model the request's upstream call was sent to, whatever other requests
\* did while the call was awaited.
C16_ChatReportsModelCalled ==
    [][\A p \in Clients :
          ChatSuccessStep(p) =>
              /\ Len(resp'[p]) = 1
              /\ resp'[p][1].success = "true"
              /\ resp'[p][1].model = sentModel[p]]_vars


\* C20 (as claimed): when the upstream call of a chat request, sent to
\* model M, fails with 404, currentModel right after that request's failure
\* handling differs from M, whatever concurrent chat requests did.
C20_NotFoundNeverSwitchesBackToFailedModel ==
    [][\A p \in Clients :
          ChatNotFoundStep(p) => currentModel' # sentModel[p]]_vars


Blank(c) == c \in {" ", "\t", "\n"}

\* s is the key k up to letter case, with blanks before and after
VariantOf(s, k) ==
    \E i \in 0..Len(s) :
        /\ Len(s) >= i + Len(k)
        /\ \A j \in 1..i : Blank(s[j])
        /\ \A j \in 1..Len(k) : EqIgnoreCase(s[i + j], k[j])
        /\ \A j \in (i + Len(k) + 1)..Len(s) : Blank(s[j])

CatalogKeys == {keyBennu, keyApophis, keyCeres, keyEros, keyItokawa}

\* C17 (as claimed): the answer to an asteroid-info request whose upstream
\* call was rejected carries, for a name that is a known key up to letter
\* case and surrounding blanks, the fact sheet of that key, and for every
\* other name the being-analyzed text with the name as it was sent.
C17_CatalogLookupNormalises ==
    \A p \in Clients :
        (/\ pc[p] = "done"
         /\ req[p].op = "asteroid-info"
         /\ lastOutcome[p] \in {"e404", "e429", "e500", "timeout", "network"}) =>
            /\ Len(resp[p]) = 1
            /\ \A k \in CatalogKeys :
                 VariantOf(req[p].arg.chars, k) =>
                     resp[p][1].response = asteroidDatabase[k]
            /\ (\A k \in CatalogKeys : ~VariantOf(req[p].arg.chars, k)) =>
                 resp[p][1].response = Template("being-analyzed", req[p].arg.chars)


\* the finished listing requests whose upstream call brought a listing
ListingAnswered(p) ==
    /\ pc[p] = "done"
    /\ req[p].op = "models"
    /\ lastOutcome[p] = "ok"

Occurs(k, s) ==
    \E i \in 0..(Len(s) - Len(k)) : \A j \in 1..Len(k) : s[i + j] = k[j]

ExcludedWords == {
    <<"e","m","b","e","d","d","i","n","g">>,
    <<"i","m","a","g","e","n">>,
    <<"v","e","o">>,
    <<"a","u","d","i","o">>,
    <<"t","t","s">> }

\* the identifier of a named descriptor: its name without the models/ prefix
ModelId(d) ==
    IF Len(d.name.chars) >= 7 /\ SubSeq(d.name.chars, 1, 7) = <<"m","o","d","e","l","s","/">>
    THEN SubSeq(d.name.chars, 8, Len(d.name.chars))
    ELSE d.name.chars

SupportsGenerateContent(d) ==
    /\ d.supportedGenerationMethods.kind = "array"
    /\ \E i \in DOMAIN d.supportedGenerationMethods.items :
          d.supportedGenerationMethods.items[i] = "generateContent"

Listable(d) ==
    /\ d.name.kind = "string" /\ d.name.chars # <<>>
    /\ SupportsGenerateContent(d)
    /\ \A w \in ExcludedWords : ~Occurs(w, ModelId(d))

\* C18: the models of a listing answer are exactly the descriptors of the
\* upstream listing that have a name, support generateContent and whose
\* identifier contains none of embedding, imagen, veo, audio, tts, each as
\* often as the upstream listing has it; no identifier in the answer
\* contains one of these words.
C18_ListingKeepsExactlyTextModels ==
    \A p \in Clients :
        ListingAnswered(p) =>
            /\ Len(resp[p]) = 1
            /\ resp[p][1].success = "true"
            /\ LET given == models[p]
                   listed == resp[p][1].models
                   ids == {listed[i].name : i \in DOMAIN listed} \cup
                          {ModelId(given[j]) : j \in {j \in DOMAIN given : Listable(given[j])}}
               IN  /\ \A x \in ids :
                         Cardinality({i \in DOMAIN listed : listed[i].name = x}) =
                         Cardinality({j \in DOMAIN given :
                                         Listable(given[j]) /\ ModelId(given[j]) = x})
                   /\ \A i \in DOMAIN listed :
                         \A w \in ExcludedWords : ~Occurs(w, listed[i].name)

C18_Witness ==
    \E p \in Clients :
        /\ ListingAnswered(p)
        /\ Len(models[p]) = 3
        /\ Len(resp[p][1].models) = 1
        /\ \E j \in DOMAIN models[p] :
              /\ SupportsGenerateContent(models[p][j])
              /\ models[p][j].name.kind = "string"
              /\ Occurs(<<"t","t","s">>, models[p][j].name.chars)
        /\ \E j \in DOMAIN models[p] : Listable(models[p][j])
        /\ \E j \in DOMAIN models[p] : ~SupportsGenerateContent(models[p][j])

CodeUnit ==
    ("-" :> 45) @@ ("." :> 46) @@ ("0" :> 48) @@ ("1" :> 49) @@ ("2" :> 50) @@
    ("3" :> 51) @@ ("4" :> 52) @@ ("5" :> 53) @@ ("6" :> 54) @@ ("7" :> 55) @@
    ("8" :> 56) @@ ("9" :> 57) @@ ("a" :> 97) @@ ("b" :> 98) @@ ("c" :> 99) @@
    ("d" :> 100) @@ ("e" :> 101) @@ ("f" :> 102) @@ ("g" :> 103) @@ ("h" :> 104) @@
    ("i" :> 105) @@ ("j" :> 106) @@ ("k" :> 107) @@ ("l" :> 108) @@ ("m" :> 109) @@
    ("n" :> 110) @@ ("o" :> 111) @@ ("p" :> 112) @@ ("q" :> 113) @@ ("r" :> 114) @@
    ("s" :> 115) @@ ("t" :> 116) @@ ("u" :> 117) @@ ("v" :> 118) @@ ("w" :> 119) @@
    ("x" :> 120) @@ ("y" :> 121) @@ ("z" :> 122)

\* a precedes or equals b in the lexicographic order of their code units
LexLeq(a, b) ==
    \/ (Len(a) <= Len(b) /\ a = SubSeq(b, 1, Len(a)))
    \/ \E k \in 1..Len(a) :
          /\ k <= Len(b)
          /\ SubSeq(a, 1, k - 1) = SubSeq(b, 1, k - 1)
          /\ CodeUnit[a[k]] < CodeUnit[b[k]]

IsFlash(m) == Occurs(<<"f","l","a","s","h">>, m.name)

C21_ChatAloneAlternates ==
    [][/\ currentModel \in {"gemini-2.5-flash", "gemini-2.0-flash", "gemini-pro-latest"}
       /\ currentModel' \in {"gemini-2.5-flash", "gemini-2.0-flash", "gemini-pro-latest"}
       /\ currentModel # "gemini-2.5-flash" => currentModel' # "gemini-2.5-flash"
       /\ \A p \in Clients :
             ChatNotFoundStep(p) =>
                 currentModel' = IF currentModel = "gemini-2.0-flash"
                                 THEN "gemini-pro-latest"
                                 ELSE "gemini-2.0-flash"]_vars

C21_Witness ==
    \E p, q \in Clients :
        /\ p # q
        /\ pc[p] = "done" /\ req[p].op = "chat" /\ lastOutcome[p] = "e404"
        /\ pc[q] = "done" /\ req[q].op = "chat" /\ lastOutcome[q] = "e404"
        /\ currentModel = "gemini-pro-latest"


TestInFlight(p) == pc[p] \in {"tg_primary", "tg_fallback"}

\* C22: a model test that has been started ends, having issued at least 1
\* and at most 5 upstream calls; when its primary call brings text, the
\* request ends in that step with that one call and currentModel as it was.
C22_ModelTestTerminatesWithinFiveCalls ==
    /\ [](\A p \in Clients :
             (req[p].op = "test-gemini") => (calls[p] >= 1 /\ calls[p] <= 5))
    /\ [][\A p \in Clients :
             (TestPrimaryStep(p) /\ lastOutcome'[p] = "ok") =>
                 /\ pc'[p] = "done"
                 /\ calls'[p] = 1
                 /\ currentModel' = currentModel]_vars
    /\ \A p \in Clients : TestInFlight(p) ~> (pc[p] = "done")

C22_Witness ==
    \E p, q \in Clients :
        /\ pc[p] = "done" /\ req[p].op = "test-gemini" /\ calls[p] = 5
        /\ pc[q] = "done" /\ req[q].op = "test-gemini" /\ calls[q] = 1
        /\ lastOutcome[q] = "ok"


\* what a chat request with a message does about its upstream call: one
\* call, issued on arrival to the currentModel of that moment; the step in
\* which it settles ends the request without another call; after a 404 the
\* answer names the currentModel the step has switched to
ChatIssuesOneCall(p) ==
    /\ (ChatArrivalStep(p) /\ ~AbsentOrEmpty(req'[p].arg)) =>
          /\ pc'[p] = "chat"
          /\ calls'[p] = 1
          /\ sentModel'[p] = currentModel
    /\ (pc[p] = "chat" /\ pc'[p] # "chat") =>
          /\ pc'[p] = "done"
          /\ calls'[p] = 1
          /\ Len(resp'[p]) = 1
    /\ ChatNotFoundStep(p) =>
          /\ currentModel' # currentModel
          /\ resp'[p][1].success = "false"
          /\ resp'[p][1].model = currentModel'

ChatIssuesOneCallAlways == [][\A p \in Clients : ChatIssuesOneCall(p)]_vars

\* C23 (as claimed): a chat request with a message issues exactly one
\* upstream call, addressed to currentModel as it is when the call is
\* issued; after a 404 the handler switches currentModel without a second
\* call, and the model of its answer is the new currentModel and not the
\* model whose call failed.
C23_OneCallAndAnswerNamesNewModel ==
    [][\A p \in Clients :
          /\ ChatIssuesOneCall(p)
          /\ ChatNotFoundStep(p) => resp'[p][1].model # sentModel[p]]_vars

=============================================================================
